---- MODULE Spec2Model ----
(***************************************************************************)
(* Meetings API service (src/server.js): an Express application over two   *)
(* Mongoose collections, User and Meeting.  The state is the two           *)
(* collections and, per client connection, the request being served, the   *)
(* position of its handler and the response it produced.  Every store call *)
(* a handler awaits is one atomic step; the synchronous code between two   *)
(* awaits belongs to the step of the store call that follows it.           *)
(*                                                                         *)
(* Texts are sequences of one-character strings, so that trim and          *)
(* lowercase are computed.  An optional field is <<>> when absent and <<v>> *)
(* when present.  A date of a request body is an ISO-8601 text, modelled   *)
(* by the local time and zone offset it spells; the store keeps instants.  *)
(* A request value standing where an id is expected is either ObjectId     *)
(* syntax (lit = "", oid = n) or some other word (lit = the word).          *)
(* createdAt / updatedAt are store-managed and not modelled.               *)
(***************************************************************************)
EXTENDS Integers, Sequences, FiniteSets, TLC

\* Bounds of the model: the number of meetings the clients may create under
\* each specification.
MaxMeetings == 1
ManyMeetings == 2
ConcMeetings == 1

\* .limit(10) of the upcoming-meetings query.
UpcomingLimit == 10

VARIABLES
    users,      \* User collection: sequence of [name, email]; _id = index
    meetings,   \* Meeting collection: function from the live _ids to documents
    created,    \* number of Meeting _ids the store has generated
    pc,         \* per client: position of the handler serving its request
    req,        \* per client: the request being served (kept once answered)
    savedId,    \* per client: savedMeeting._id of the create handler (0: none)
    resp,       \* per client: the response (status 0 while unanswered)
    submitted   \* history: the body each live meeting was created from, kept
                \* until the meeting is updated or deleted

vars == <<users, meetings, created, pc, req, savedId, resp, submitted>>

----------------------------------------------------------------------------
\* Texts

RECURSIVE TrimLeft(_)
TrimLeft(s) ==
    IF s # <<>> /\ Head(s) = " " THEN TrimLeft(Tail(s)) ELSE s

RECURSIVE TrimRight(_)
TrimRight(s) ==
    IF s # <<>> /\ s[Len(s)] = " "
    THEN TrimRight(SubSeq(s, 1, Len(s) - 1))
    ELSE s

\* Mongoose `trim: true` setter.
Trim(s) == TrimRight(TrimLeft(s))

LowerChar(ch) ==
    CASE ch = "A" -> "a"
      [] ch = "B" -> "b"
      [] OTHER -> ch

\* Mongoose `lowercase: true` setter.
Lowercase(s) == [i \in DOMAIN s |-> LowerChar(s[i])]

\* The setters applied to an optional text field.
TrimOpt(o) == IF o = <<>> THEN <<>> ELSE <<Trim(o[1])>>

\* express-validator notEmpty(): fails on a missing value and on "".
NotEmpty(s) == s # <<>>

\* express-validator isEmail(): one "@" with text on both sides, no blank.
IsEmail(s) ==
    /\ Cardinality({i \in DOMAIN s : s[i] = "@"}) = 1
    /\ s # <<>> /\ s[1] # "@" /\ s[Len(s)] # "@"
    /\ \A i \in DOMAIN s : s[i] # " "

----------------------------------------------------------------------------
\* Ids and dates

Oid(n) == [lit |-> "", oid |-> n]
Word(w) == [lit |-> w, oid |-> 0]

\* express-validator isMongoId() / Mongoose's cast to ObjectId succeeds.
IsMongoId(v) == v.lit = ""

\* new Date(text): the instant an ISO-8601 text denotes.
ParseDate(d) == d.t - d.z

\* express-validator isISO8601().
IsISO8601(d) == d.iso

----------------------------------------------------------------------------
\* The User collection

UserIds == 1..Len(users)

\* As FindUserById, were the lookup to find a user under every id.
FindUserById_Always(id) == {id}

\* User.findById(id): the id set of the match (empty when there is none).
FindUserById(id) == {u \in UserIds : u = id}

\* User.countDocuments({_id: {$in: ids}}): the number of stored users whose
\* _id occurs in the list.
CountUsersIn(ids) ==
    Cardinality({u \in UserIds : \E i \in DOMAIN ids : ids[i] = u})

\* The unique index on email.
EmailTaken(email) == \E u \in UserIds : users[u].email = email

\* As CastUser, without the lowercase setter.
CastUser_KeepCase(b) == [name |-> Trim(b.name), email |-> Trim(b.email)]

\* new User(req.body): schema setters (userSchema).
CastUser(b) == [name |-> Trim(b.name), email |-> Lowercase(Trim(b.email))]

\* Schema validation of a user document: both paths required.
UserSchemaValid(doc) == doc.name # <<>> /\ doc.email # <<>>

UserDoc(u) == [id |-> u, name |-> users[u].name, email |-> users[u].email]

----------------------------------------------------------------------------
\* The Meeting collection

\* As CastMeeting, with the attendees put in ascending id order.
CastMeeting_Ordered(b) ==
    LET a == IF b.attendees = <<>> THEN <<>>
             ELSE [i \in DOMAIN b.attendees[1] |-> b.attendees[1][i].oid]
    IN  [title |-> Trim(b.title),
         description |-> TrimOpt(b.description),
         startDate |-> ParseDate(b.startDate),
         endDate |-> ParseDate(b.endDate),
         location |-> TrimOpt(b.location),
         organizer |-> b.organizer.oid,
         attendees |-> IF Len(a) = 2 /\ a[1] > a[2] THEN <<a[2], a[1]>> ELSE a]

\* new Meeting(req.body): schema setters and casts (meetingSchema).
CastMeeting(b) ==
    [title |-> Trim(b.title),
     description |-> TrimOpt(b.description),
     startDate |-> ParseDate(b.startDate),
     endDate |-> ParseDate(b.endDate),
     location |-> TrimOpt(b.location),
     organizer |-> b.organizer.oid,
     attendees |-> IF b.attendees = <<>> THEN <<>>
                   ELSE [i \in DOMAIN b.attendees[1] |-> b.attendees[1][i].oid]]

\* Schema validation of a meeting document: title is required, and a string
\* path that is required rejects "" (the dates and the organizer are present
\* whenever the request validators passed).
MeetingSchemaValid(doc) == doc.title # <<>>

\* The update document of findByIdAndUpdate(id, req.body): a body without
\* operators is applied as $set of the fields it holds, after the setters.
ApplyUpdate(old, b) ==
    LET new == CastMeeting(b)
    IN  [title |-> new.title,
         description |-> IF b.description = <<>> THEN old.description
                         ELSE new.description,
         startDate |-> new.startDate,
         endDate |-> new.endDate,
         location |-> IF b.location = <<>> THEN old.location ELSE new.location,
         organizer |-> new.organizer,
         attendees |-> IF b.attendees = <<>> THEN old.attendees
                       ELSE new.attendees]

\* The collection after the insert of `doc` under the fresh _id `id`.
InsertMeeting(id, doc) ==
    [m \in DOMAIN meetings \cup {id} |-> IF m = id THEN doc ELSE meetings[m]]

\* As FindByIdAndUpdate, with {upsert: true}.
FindByIdAndUpdate_Upsert(id, b) ==
    IF id \in DOMAIN meetings
    THEN [meetings EXCEPT ![id] = ApplyUpdate(meetings[id], b)]
    ELSE InsertMeeting(id, CastMeeting(b))

\* The collection after findByIdAndUpdate(id, b): no upsert, so a collection
\* without the id stays as it is.
FindByIdAndUpdate(id, b) ==
    IF id \in DOMAIN meetings
    THEN [meetings EXCEPT ![id] = ApplyUpdate(meetings[id], b)]
    ELSE meetings

\* As FindByIdAndDelete, were the document found but not removed.
FindByIdAndDelete_Keep(id) == meetings

\* The collection after findByIdAndDelete(id).
FindByIdAndDelete(id) == [m \in DOMAIN meetings \ {id} |-> meetings[m]]

\* The history variable without the entry of `id`.
Forget(id) == [m \in DOMAIN submitted \ {id} |-> submitted[m]]

\* populate(path, 'name email') of one reference: the summary, or nothing
\* when no user has that id.
Summary(uid) ==
    IF uid \in UserIds
    THEN <<[id |-> uid, name |-> users[uid].name, email |-> users[uid].email]>>
    ELSE <<>>

RECURSIVE Summaries(_)
Summaries(ids) ==
    IF ids = <<>> THEN <<>>
    ELSE Summary(Head(ids)) \o Summaries(Tail(ids))

\* A meeting document with organizer and attendees populated.
Populate(id, doc) ==
    [id |-> id,
     title |-> doc.title,
     description |-> doc.description,
     startDate |-> doc.startDate,
     endDate |-> doc.endDate,
     location |-> doc.location,
     organizer |-> Summary(doc.organizer),
     attendees |-> Summaries(doc.attendees)]

\* .sort({startDate: 1}): the orders of the id set `ids` that ascend by
\* startDate (documents with equal startDate come in any order).
SortedByStart(ids) ==
    {s \in [1..Cardinality(ids) -> ids] :
        /\ \A i, j \in DOMAIN s : i < j => s[i] # s[j]
        /\ \A i, j \in DOMAIN s :
              i < j => meetings[s[i]].startDate <= meetings[s[j]].startDate}

PopulateAll(order) == [i \in DOMAIN order |-> Populate(order[i], meetings[order[i]])]

----------------------------------------------------------------------------
\* Routing: app.METHOD(path, ...) in registration order; Express runs the
\* first route whose method and path pattern match.

Lit(w) == [lit |-> w, param |-> FALSE]
Par(w) == [lit |-> w, param |-> TRUE]
Route(m, p, h) == [method |-> m, pattern |-> p, handler |-> h]

Routes ==
    << Route("GET", <<>>, "health"),
       Route("GET", <<Lit("api"), Lit("users")>>, "listUsers"),
       Route("POST", <<Lit("api"), Lit("users")>>, "createUser"),
       Route("GET", <<Lit("api"), Lit("users"), Par("id")>>, "getUser"),
       Route("GET", <<Lit("api"), Lit("meetings")>>, "listMeetings"),
       Route("GET", <<Lit("api"), Lit("meetings"), Par("id")>>, "getMeeting"),
       Route("POST", <<Lit("api"), Lit("meetings")>>, "createMeeting"),
       Route("PUT", <<Lit("api"), Lit("meetings"), Par("id")>>, "updateMeeting"),
       Route("DELETE", <<Lit("api"), Lit("meetings"), Par("id")>>, "deleteMeeting"),
       Route("GET", <<Lit("api"), Lit("users"), Par("userId"), Lit("meetings")>>,
             "userMeetings"),
       Route("GET", <<Lit("api"), Lit("meetings"), Lit("upcoming")>>, "upcoming") >>

\* A pattern segment matches a path segment: a parameter takes any segment,
\* a literal only itself.
Matches(route, method, path) ==
    /\ route.method = method
    /\ Len(route.pattern) = Len(path)
    /\ \A i \in DOMAIN path :
          route.pattern[i].param \/ route.pattern[i].lit = path[i].lit

\* The handler Express dispatches the request to; app.use('*') answers
\* what no route matches.
Dispatch(method, path) ==
    LET hits == {i \in DOMAIN Routes : Matches(Routes[i], method, path)}
    IN  IF hits = {} THEN "notFound"
        ELSE Routes[CHOOSE i \in hits : \A j \in hits : i <= j].handler

----------------------------------------------------------------------------
\* Requests and responses

NoUserBody == [name |-> <<>>, email |-> <<>>]

NoDate == [iso |-> FALSE, t |-> 0, z |-> 0]

NoMeetingBody ==
    [title |-> <<>>, description |-> <<>>, startDate |-> NoDate,
     endDate |-> NoDate, location |-> <<>>, organizer |-> Word(""),
     attendees |-> <<>>]

Request(m, p, ub, mb) == [method |-> m, path |-> p, ubody |-> ub, mbody |-> mb]

NoRequest == Request("", <<>>, NoUserBody, NoMeetingBody)

\* wrote: whether the request has changed the Meeting collection.
NoResp == [status |-> 0, error |-> "", mdocs |-> <<>>, udocs |-> <<>>,
           wrote |-> FALSE]

Handler(c) == Dispatch(req[c].method, req[c].path)

\* req.params.id / req.params.userId: the third path segment.
PathParam(c) == req[c].path[3]

\* res.status(s).json(...) ends the request of client c.
Answer(c, status, error, mdocs, udocs) ==
    /\ resp' = [resp EXCEPT ![c] = [status |-> status, error |-> error,
                                    mdocs |-> mdocs, udocs |-> udocs,
                                    wrote |-> resp[c].wrote]]
    /\ pc' = [pc EXCEPT ![c] = "done"]
    /\ savedId' = [savedId EXCEPT ![c] = 0]

Fail(c, status, error) == Answer(c, status, error, <<>>, <<>>)

Goto(c, label) ==
    /\ pc' = [pc EXCEPT ![c] = label]
    /\ UNCHANGED <<resp, savedId>>

InFlight(handler) ==
    Cardinality({d \in DOMAIN pc : pc[d] \notin {"idle", "done", "refetch"}
                                   /\ Handler(d) = handler})

\* The server takes request r from client c (who is not waiting for an
\* answer).  The model admits a create of a meeting only while fewer than
\* `bound` have been asked for.
Receive(c, r, bound) ==
    /\ pc[c] = "idle"
    /\ Dispatch(r.method, r.path) = "createMeeting"
          => created + InFlight("createMeeting") < bound
    /\ pc' = [pc EXCEPT ![c] = "handle"]
    /\ req' = [req EXCEPT ![c] = r]
    /\ resp' = [resp EXCEPT ![c] = NoResp]
    /\ savedId' = [savedId EXCEPT ![c] = 0]
    /\ UNCHANGED <<users, meetings, created, submitted>>

\* The answer has reached client c, who may send the next request.
Return(c) ==
    /\ pc[c] = "done"
    /\ pc' = [pc EXCEPT ![c] = "idle"]
    /\ req' = [req EXCEPT ![c] = NoRequest]
    /\ resp' = [resp EXCEPT ![c] = NoResp]
    /\ UNCHANGED <<users, meetings, created, submitted, savedId>>

----------------------------------------------------------------------------
\* User routes

\* validateUser + handleValidationErrors.
ValidUserBody(b) == NotEmpty(b.name) /\ IsEmail(b.email)

\* POST /api/users
CreateUser(c) ==
    /\ pc[c] = "handle" /\ Handler(c) = "createUser"
    /\ LET b == req[c].ubody
           doc == CastUser(b)
       IN  IF ~ValidUserBody(b)
           THEN Fail(c, 400, "validation") /\ UNCHANGED users
           ELSE IF ~UserSchemaValid(doc)
           THEN Fail(c, 500, "ValidationError") /\ UNCHANGED users
           ELSE IF EmailTaken(doc.email)
           THEN Fail(c, 400, "Email already exists") /\ UNCHANGED users
           ELSE /\ users' = Append(users, doc)
                /\ Answer(c, 201, "", <<>>,
                          <<[id |-> Len(users) + 1, name |-> doc.name,
                             email |-> doc.email]>>)
    /\ UNCHANGED <<meetings, created, submitted, req>>

\* GET /api/users: sorted by createdAt descending.
ListUsers == [i \in UserIds |-> UserDoc(Len(users) + 1 - i)]

\* GET /api/users/:id
GetUser(p) ==
    IF ~IsMongoId(p) THEN [NoResp EXCEPT !.status = 500, !.error = "CastError"]
    ELSE IF FindUserById(p.oid) = {}
    THEN [NoResp EXCEPT !.status = 404, !.error = "User not found"]
    ELSE [NoResp EXCEPT !.status = 200, !.udocs = <<UserDoc(p.oid)>>]

----------------------------------------------------------------------------
\* Meeting routes answered by one store call

\* GET /api/meetings
ListMeetings ==
    {[NoResp EXCEPT !.status = 200, !.mdocs = PopulateAll(o)] :
        o \in SortedByStart(DOMAIN meetings)}

\* GET /api/meetings/:id
GetMeeting(p) ==
    IF ~IsMongoId(p) THEN [NoResp EXCEPT !.status = 500, !.error = "CastError"]
    ELSE IF p.oid \notin DOMAIN meetings
    THEN [NoResp EXCEPT !.status = 404, !.error = "Meeting not found"]
    ELSE [NoResp EXCEPT !.status = 200,
                        !.mdocs = <<Populate(p.oid, meetings[p.oid])>>]

\* GET /api/meetings/upcoming, `now` being new Date() at handler entry.
Upcoming(now) ==
    {[NoResp EXCEPT !.status = 200,
                    !.mdocs = PopulateAll(SubSeq(o, 1,
                        IF Len(o) < UpcomingLimit THEN Len(o) ELSE UpcomingLimit))] :
        o \in SortedByStart({m \in DOMAIN meetings : meetings[m].startDate >= now})}

\* What a handler that awaits one read answers.
ReadAnswers(handler, p, now) ==
    CASE handler = "health" -> {[NoResp EXCEPT !.status = 200]}
      [] handler = "notFound" ->
            {[NoResp EXCEPT !.status = 404, !.error = "Route not found"]}
      [] handler = "listUsers" ->
            {[NoResp EXCEPT !.status = 200, !.udocs = ListUsers]}
      [] handler = "getUser" -> {GetUser(p)}
      [] handler = "listMeetings" -> ListMeetings
      [] handler = "getMeeting" -> {GetMeeting(p)}
      [] handler = "upcoming" -> Upcoming(now)

ReadHandlers ==
    {"health", "notFound", "listUsers", "getUser", "listMeetings",
     "getMeeting", "upcoming"}

Clock == 0..4

HandleRead(c) ==
    /\ pc[c] = "handle" /\ Handler(c) \in ReadHandlers
    /\ \E now \in Clock :
          \E r \in ReadAnswers(Handler(c),
                               IF Len(req[c].path) >= 3 THEN PathParam(c)
                               ELSE Word(""), now) :
              Answer(c, r.status, r.error, r.mdocs, r.udocs)
    /\ UNCHANGED <<users, meetings, created, submitted, req>>

\* DELETE /api/meetings/:id
DeleteMeeting(c) ==
    /\ pc[c] = "handle" /\ Handler(c) = "deleteMeeting"
    /\ LET p == PathParam(c)
       IN  IF ~IsMongoId(p)
           THEN Fail(c, 500, "CastError") /\ UNCHANGED <<meetings, submitted>>
           ELSE IF p.oid \notin DOMAIN meetings
           THEN Fail(c, 404, "Meeting not found")
                /\ UNCHANGED <<meetings, submitted>>
           ELSE /\ meetings' = FindByIdAndDelete(p.oid)
                /\ submitted' = Forget(p.oid)
                /\ resp' = [resp EXCEPT ![c] = [NoResp EXCEPT !.status = 200,
                                                             !.wrote = TRUE]]
                /\ pc' = [pc EXCEPT ![c] = "done"]
                /\ UNCHANGED savedId
    /\ UNCHANGED <<users, created, req>>

\* GET /api/users/:userId/meetings, first await: User.findById(userId).
UserMeetingsFindUser(c) ==
    /\ pc[c] = "handle" /\ Handler(c) = "userMeetings"
    /\ LET p == PathParam(c)
       IN  IF ~IsMongoId(p) THEN Fail(c, 500, "CastError")
           ELSE IF FindUserById(p.oid) = {} THEN Fail(c, 404, "User not found")
           ELSE Goto(c, "find")
    /\ UNCHANGED <<users, meetings, created, submitted, req>>

\* As MeetingsOfUser, without the attendees clause.
MeetingsOfUser_Organizer(u) ==
    {m \in DOMAIN meetings : meetings[m].organizer = u}

\* Meeting.find({$or: [{organizer: userId}, {attendees: userId}]}).
MeetingsOfUser(u) ==
    {m \in DOMAIN meetings :
        \/ meetings[m].organizer = u
        \/ \E i \in DOMAIN meetings[m].attendees : meetings[m].attendees[i] = u}

\* GET /api/users/:userId/meetings, second await: the find, populated and
\* sorted.
UserMeetingsFind(c) ==
    /\ pc[c] = "find" /\ Handler(c) = "userMeetings"
    /\ \E o \in SortedByStart(MeetingsOfUser(PathParam(c).oid)) :
          Answer(c, 200, "", PopulateAll(o), <<>>)
    /\ UNCHANGED <<users, meetings, created, submitted, req>>

----------------------------------------------------------------------------
\* POST /api/meetings and PUT /api/meetings/:id

\* validateMeeting + handleValidationErrors (attendees, when present, is an
\* array in every body of the model).
ValidMeetingBody(b) ==
    /\ NotEmpty(b.title)
    /\ IsISO8601(b.startDate)
    /\ IsISO8601(b.endDate)
    /\ IsMongoId(b.organizer)

\* As DatesOutOfOrder, with > for >=.
DatesOutOfOrder_Strict(b) == ParseDate(b.startDate) > ParseDate(b.endDate)

\* new Date(req.body.startDate) >= new Date(req.body.endDate)
DatesOutOfOrder(b) == ParseDate(b.startDate) >= ParseDate(b.endDate)

\* req.body.attendees && req.body.attendees.length > 0
HasAttendees(b) == b.attendees # <<>> /\ Len(b.attendees[1]) > 0

\* As AttendeeCountDiffers, refusing only when no attendee is found.
AttendeeCountDiffers_None(b) ==
    CountUsersIn([i \in DOMAIN b.attendees[1] |-> b.attendees[1][i].oid]) = 0

\* attendeeCount !== req.body.attendees.length
AttendeeCountDiffers(b) ==
    CountUsersIn([i \in DOMAIN b.attendees[1] |-> b.attendees[1][i].oid])
        # Len(b.attendees[1])

\* The handler up to and including its first await, User.findById(organizer);
\* `write` is the position of the handler's write.
CheckOrganizer(c, write) ==
    LET b == req[c].mbody
    IN  IF ~ValidMeetingBody(b) THEN Fail(c, 400, "validation")
        ELSE IF DatesOutOfOrder(b)
        THEN Fail(c, 400, "Start date must be before end date")
        ELSE IF FindUserById(b.organizer.oid) = {}
        THEN Fail(c, 400, "Organizer not found")
        ELSE IF HasAttendees(b) THEN Goto(c, "attendees")
        ELSE Goto(c, write)

\* The second await, User.countDocuments({_id: {$in: attendees}}); an entry
\* that is no ObjectId makes the query's cast throw.
CheckAttendees(c, write) ==
    LET b == req[c].mbody
    IN  IF \E i \in DOMAIN b.attendees[1] : ~IsMongoId(b.attendees[1][i])
        THEN Fail(c, 500, "CastError")
        ELSE IF AttendeeCountDiffers(b)
        THEN Fail(c, 400, "One or more attendees not found")
        ELSE Goto(c, write)

CreateMeetingOrganizer(c) ==
    /\ pc[c] = "handle" /\ Handler(c) = "createMeeting"
    /\ CheckOrganizer(c, "save")
    /\ UNCHANGED <<users, meetings, created, submitted, req>>

CreateMeetingAttendees(c) ==
    /\ pc[c] = "attendees" /\ Handler(c) = "createMeeting"
    /\ CheckAttendees(c, "save")
    /\ UNCHANGED <<users, meetings, created, submitted, req>>

\* new Meeting(req.body) and meeting.save(): validation, then the insert
\* under a fresh _id.
CreateMeetingSave(c) ==
    /\ pc[c] = "save" /\ Handler(c) = "createMeeting"
    /\ LET doc == CastMeeting(req[c].mbody)
           id == created + 1
       IN  IF ~MeetingSchemaValid(doc)
           THEN Fail(c, 500, "ValidationError")
                /\ UNCHANGED <<meetings, created, submitted>>
           ELSE /\ meetings' = InsertMeeting(id, doc)
                /\ submitted' = [m \in DOMAIN submitted \cup {id} |->
                                    IF m = id THEN req[c].mbody ELSE submitted[m]]
                /\ created' = id
                /\ savedId' = [savedId EXCEPT ![c] = id]
                /\ resp' = [resp EXCEPT ![c].wrote = TRUE]
                /\ pc' = [pc EXCEPT ![c] = "refetch"]
    /\ UNCHANGED <<users, req>>

\* Meeting.findById(savedMeeting._id), populated, answered with 201 (null
\* when the document is gone).
CreateMeetingRefetch(c) ==
    /\ pc[c] = "refetch" /\ Handler(c) = "createMeeting"
    /\ IF savedId[c] \in DOMAIN meetings
       THEN Answer(c, 201, "", <<Populate(savedId[c], meetings[savedId[c]])>>, <<>>)
       ELSE Answer(c, 201, "", <<>>, <<>>)
    /\ UNCHANGED <<users, meetings, created, submitted, req>>

UpdateMeetingOrganizer(c) ==
    /\ pc[c] = "handle" /\ Handler(c) = "updateMeeting"
    /\ CheckOrganizer(c, "update")
    /\ UNCHANGED <<users, meetings, created, submitted, req>>

UpdateMeetingAttendees(c) ==
    /\ pc[c] = "attendees" /\ Handler(c) = "updateMeeting"
    /\ CheckAttendees(c, "update")
    /\ UNCHANGED <<users, meetings, created, submitted, req>>

\* Meeting.findByIdAndUpdate(id, req.body, {new: true, runValidators: true}),
\* populated: the id is cast and the update validated before the store is
\* asked; the store changes the document only if it holds one with that id.
UpdateMeetingWrite(c) ==
    /\ pc[c] = "update" /\ Handler(c) = "updateMeeting"
    /\ LET p == PathParam(c)
           b == req[c].mbody
       IN  IF ~IsMongoId(p)
           THEN Fail(c, 500, "CastError") /\ UNCHANGED <<meetings, submitted>>
           ELSE IF ~MeetingSchemaValid(CastMeeting(b))
           THEN Fail(c, 500, "ValidationError")
                /\ UNCHANGED <<meetings, submitted>>
           ELSE IF p.oid \notin DOMAIN meetings
           THEN /\ meetings' = FindByIdAndUpdate(p.oid, b)
                /\ Fail(c, 404, "Meeting not found")
                /\ UNCHANGED submitted
           ELSE LET new == FindByIdAndUpdate(p.oid, b)
                IN  /\ meetings' = new
                    /\ submitted' = Forget(p.oid)
                    /\ resp' = [resp EXCEPT ![c] =
                                   [NoResp EXCEPT !.status = 200,
                                                  !.mdocs = <<Populate(p.oid, new[p.oid])>>,
                                                  !.wrote = TRUE]]
                    /\ pc' = [pc EXCEPT ![c] = "done"]
                    /\ UNCHANGED savedId
    /\ UNCHANGED <<users, created, req>>

----------------------------------------------------------------------------
\* The server

InitFor(cl) ==
    /\ users = <<>>
    /\ meetings = <<>>
    /\ created = 0
    /\ pc = [c \in cl |-> "idle"]
    /\ req = [c \in cl |-> NoRequest]
    /\ savedId = [c \in cl |-> 0]
    /\ resp = [c \in cl |-> NoResp]
    /\ submitted = <<>>

Step(c) ==
    \/ Return(c)
    \/ HandleRead(c)
    \/ CreateUser(c)
    \/ DeleteMeeting(c)
    \/ UserMeetingsFindUser(c)
    \/ UserMeetingsFind(c)
    \/ CreateMeetingOrganizer(c)
    \/ CreateMeetingAttendees(c)
    \/ CreateMeetingSave(c)
    \/ CreateMeetingRefetch(c)
    \/ UpdateMeetingOrganizer(c)
    \/ UpdateMeetingAttendees(c)
    \/ UpdateMeetingWrite(c)

----------------------------------------------------------------------------
\* The requests the clients send

Api(rest) == <<Word("api")>> \o rest
UsersPath == Api(<<Word("users")>>)
UserPath(seg) == Api(<<Word("users"), seg>>)
UserMeetingsPath(seg) == Api(<<Word("users"), seg, Word("meetings")>>)
MeetingsPath == Api(<<Word("meetings")>>)
MeetingPath(seg) == Api(<<Word("meetings"), seg>>)

\* The e-mail addresses of the users the meeting specifications create; the
\* unique index lets at most one user be stored per address.
Emails == {<<"a", "@", "b">>, <<"b", "@", "b">>}

UserBodies == {[name |-> <<"n">>, email |-> e] : e \in Emails}

\* Ids a request may name: id 0 is ObjectId syntax that the store never
\* generates.
UserRefs == {Oid(n) : n \in 0..Cardinality(Emails)}
MeetingRefs(bound) == {Oid(n) : n \in 0..bound}

Date(t, z) == [iso |-> TRUE, t |-> t, z |-> z]
Dates == {Date(1, 0), Date(2, 0), Date(3, 0), Date(3, 1)}

Titles == {<<>>, <<" ">>, <<"x">>, <<" ", "x", " ">>}

\* description and location: both absent, or both with blanks around.
Notes == {<< <<>>, <<>> >>, << << <<" ", "d">> >>, << <<"r", " ">> >> >>}

\* Sequences over S of length at most 2.
UpTo2(S) == {<<>>} \cup {<<a>> : a \in S} \cup {<<a, b>> : a \in S, b \in S}

BaseBody ==
    [title |-> <<"x">>, description |-> <<>>, startDate |-> Date(1, 0),
     endDate |-> Date(3, 0), location |-> <<>>, organizer |-> Oid(1),
     attendees |-> <<>>]

TextBodies ==
    {[BaseBody EXCEPT !.title = t, !.description = n[1], !.location = n[2]] :
        t \in Titles, n \in Notes}

DateBodies ==
    {[BaseBody EXCEPT !.startDate = s, !.endDate = e] :
        s \in Dates, e \in {Date(2, 0), Date(3, 0), NoDate}}

RefBodies ==
    {[BaseBody EXCEPT !.organizer = o, !.attendees = a] :
        o \in UserRefs \cup {Word("bob")},
        a \in {<<>>, << <<Word("bob")>> >>} \cup {<<s>> : s \in UpTo2(UserRefs)}}

MeetingBodies == TextBodies \cup DateBodies \cup RefBodies

\* Bodies of the PUT requests: the dates of the base body or dates the
\* handler refuses, every organizer, some attendees, every text.
PutBodies ==
    {b \in DateBodies : ~IsISO8601(b.endDate) \/ DatesOutOfOrder(b)}
        \cup {[BaseBody EXCEPT !.organizer = o, !.attendees = a] :
                o \in UserRefs,
                a \in {<<>>, << <<>> >>, << <<Oid(2)>> >>, << <<Oid(0), Oid(1)>> >>}}
        \cup TextBodies

ReadRequests(bound) ==
    {Request("GET", p, NoUserBody, NoMeetingBody) :
        p \in {<<>>, <<Word("nowhere")>>, UsersPath, MeetingsPath}
              \cup {UserPath(s) : s \in UserRefs}
              \cup {UserMeetingsPath(s) : s \in UserRefs \cup {Word("bob")}}
              \cup {MeetingPath(s) : s \in MeetingRefs(bound) \cup {Word("upcoming")}}}

DeleteRequests(bound) ==
    {Request("DELETE", MeetingPath(s), NoUserBody, NoMeetingBody) :
        s \in MeetingRefs(bound) \cup {Word("upcoming")}}

CreateUserRequests(bodies) ==
    {Request("POST", UsersPath, b, NoMeetingBody) : b \in bodies}

CreateMeetingRequests(bodies) ==
    {Request("POST", MeetingsPath, NoUserBody, b) : b \in bodies}

UpdateMeetingRequests(bodies, bound) ==
    {Request("PUT", MeetingPath(s), NoUserBody, b) :
        s \in MeetingRefs(bound) \cup {Word("upcoming")}, b \in bodies}

----------------------------------------------------------------------------
\* Spec: one client, whose requests are served one after the other, sending
\* every body above.

Requests ==
    ReadRequests(MaxMeetings) \cup DeleteRequests(MaxMeetings)
        \cup CreateUserRequests(UserBodies)
        \cup CreateMeetingRequests(MeetingBodies)
        \cup UpdateMeetingRequests(PutBodies, MaxMeetings)

Clients == {"c1"}

Init == InitFor(Clients)

Next ==
    \E c \in Clients :
        (\E r \in Requests : Receive(c, r, MaxMeetings)) \/ Step(c)

Spec == Init /\ [][Next]_vars

----------------------------------------------------------------------------
\* SpecMany: one client and several meetings, which differ in organizer,
\* attendees and start.

ManyBodies ==
    {[BaseBody EXCEPT !.startDate = s, !.organizer = o, !.attendees = a] :
        s \in {Date(1, 0), Date(2, 0)},
        o \in {Oid(1), Oid(2)},
        a \in {<<>>, << <<Oid(1)>> >>, << <<Oid(2), Oid(1)>> >>}}

ManyRequests ==
    {Request("GET", p, NoUserBody, NoMeetingBody) :
        p \in {MeetingsPath} \cup {UserMeetingsPath(s) : s \in UserRefs}}
        \cup DeleteRequests(ManyMeetings)
        \cup CreateUserRequests(UserBodies)
        \cup CreateMeetingRequests(ManyBodies)
        \cup UpdateMeetingRequests(
                {[BaseBody EXCEPT !.attendees = << <<Oid(2)>> >>]}, ManyMeetings)

NextMany ==
    \E c \in Clients :
        (\E r \in ManyRequests : Receive(c, r, ManyMeetings)) \/ Step(c)

SpecMany == Init /\ [][NextMany]_vars

----------------------------------------------------------------------------
\* SpecConc: two clients, whose requests the server handles concurrently;
\* any step of one handler may come between two steps of the other.

ConcClients == {"c1", "c2"}

ConcBodies ==
    {[BaseBody EXCEPT !.organizer = o, !.attendees = a] :
        o \in {Oid(1), Oid(2)}, a \in {<<>>, << <<Oid(2)>> >>}}

ConcTargets == MeetingRefs(ConcMeetings) \ {Oid(0)}

ConcRequests ==
    {Request("GET", p, NoUserBody, NoMeetingBody) :
        p \in {UserMeetingsPath(Oid(1))} \cup {MeetingPath(s) : s \in ConcTargets}}
        \cup {Request("DELETE", MeetingPath(s), NoUserBody, NoMeetingBody) :
                s \in ConcTargets}
        \cup CreateUserRequests(UserBodies)
        \cup CreateMeetingRequests(ConcBodies)
        \cup {Request("PUT", MeetingPath(s), NoUserBody, b) :
                s \in ConcTargets, b \in ConcBodies}

InitConc == InitFor(ConcClients)

NextConc ==
    \E c \in ConcClients :
        (\E r \in ConcRequests : Receive(c, r, ConcMeetings)) \/ Step(c)

SpecConc == InitConc /\ [][NextConc]_vars

----------------------------------------------------------------------------
\* SpecUsers: two clients sending the user routes' requests.

Names == {<<>>, <<" ">>, <<"n">>, <<" ", "n">>}

Addresses ==
    {<<"a", "@", "b">>, <<"A", "@", "b">>, <<"a", "@", "B">>, <<"b", "@", "b">>,
     <<"a", "b">>, <<" ", "a", "@", "b">>}

UsersRequests ==
    {Request("GET", p, NoUserBody, NoMeetingBody) :
        p \in {UsersPath} \cup {UserPath(s) : s \in UserRefs \cup {Word("me")}}}
        \cup CreateUserRequests({[name |-> n, email |-> e] :
                                    n \in Names, e \in Addresses})

NextUsers ==
    \E c \in ConcClients :
        \/ \E r \in UsersRequests : Receive(c, r, 0)
        \/ Return(c)
        \/ CreateUser(c)
        \/ HandleRead(c)

SpecUsers == InitConc /\ [][NextUsers]_vars

----------------------------------------------------------------------------
\* Properties

Done(c) == pc[c] = "done"
Range(s) == {s[i] : i \in DOMAIN s}
AttendeeList(b) == IF b.attendees = <<>> THEN <<>> ELSE b.attendees[1]
Ascending(docs) ==
    \A i, j \in DOMAIN docs : i < j => docs[i].startDate <= docs[j].startDate

\* C1 (as claimed): a POST /api/meetings with a valid body, startDate before
\* endDate, a stored organizer and attendees (of any length, ids repeated or
\* not) that are all stored users is answered 201, adds the meeting, and
\* carries the summaries of the organizer and of every attendee.
C1_CreateSucceeds ==
    \A c \in DOMAIN pc :
        LET b == req[c].mbody
            a == AttendeeList(b)
        IN  (/\ Done(c) /\ Handler(c) = "createMeeting"
             /\ ValidMeetingBody(b) /\ Trim(b.title) # <<>>
             /\ ParseDate(b.startDate) < ParseDate(b.endDate)
             /\ b.organizer.oid \in UserIds
             /\ \A i \in DOMAIN a : IsMongoId(a[i]) /\ a[i].oid \in UserIds)
            => /\ resp[c].status = 201
               /\ resp[c].wrote
               /\ Len(resp[c].mdocs) = 1
               /\ resp[c].mdocs[1].organizer = <<UserDoc(b.organizer.oid)>>
               /\ resp[c].mdocs[1].attendees = [i \in DOMAIN a |-> UserDoc(a[i].oid)]

\* C2 (as claimed): GET /api/meetings/upcoming is dispatched to the upcoming
\* handler and answered 200 with at most 10 meetings in ascending startDate.
C2_UpcomingAnswers ==
    \A c \in DOMAIN pc :
        (/\ Done(c) /\ req[c].method = "GET"
         /\ req[c].path = MeetingPath(Word("upcoming")))
        => /\ Handler(c) = "upcoming"
           /\ resp[c].status = 200
           /\ Len(resp[c].mdocs) <= UpcomingLimit
           /\ Ascending(resp[c].mdocs)

\* C3: a POST /api/meetings whose organizer is no stored user, or whose
\* attendees (all ObjectIds) hold an id of no stored user, is answered 400 and
\* has not changed the Meeting collection; when the body passes the
\* validators and the date check, a missing organizer is answered with
\* "Organizer not found".
C3_MissingReferenceRefused ==
    \A c \in DOMAIN pc :
        LET b == req[c].mbody
            a == AttendeeList(b)
        IN  (Done(c) /\ Handler(c) = "createMeeting")
            => /\ (~IsMongoId(b.organizer) \/ b.organizer.oid \notin UserIds)
                  => /\ resp[c].status = 400 /\ ~resp[c].wrote
                     /\ (/\ ValidMeetingBody(b)
                         /\ ParseDate(b.startDate) < ParseDate(b.endDate))
                        => resp[c].error = "Organizer not found"
               /\ (/\ \A i \in DOMAIN a : IsMongoId(a[i])
                   /\ \E i \in DOMAIN a : a[i].oid \notin UserIds)
                  => resp[c].status = 400 /\ ~resp[c].wrote

\* C3 witness: a create refused for its attendees, one of which is a stored
\* user and one is not, the organizer being stored.
C3_Witness ==
    \E c \in DOMAIN pc :
        LET b == req[c].mbody
        IN  /\ Done(c) /\ Handler(c) = "createMeeting"
            /\ b.organizer.oid \in UserIds
            /\ Len(AttendeeList(b)) = 2
            /\ \E i, j \in 1..2 : /\ AttendeeList(b)[i].oid \in UserIds
                                  /\ IsMongoId(AttendeeList(b)[j])
                                  /\ AttendeeList(b)[j].oid \notin UserIds
            /\ resp[c].status = 400
            /\ resp[c].error = "One or more attendees not found"

\* C4: a POST /api/meetings or PUT /api/meetings/:id whose startDate is not
\* before its endDate (equal instants included) is answered 400 and has not
\* changed the Meeting collection.
C4_DateOrderRefused ==
    \A c \in DOMAIN pc :
        LET b == req[c].mbody
        IN  (/\ Done(c) /\ Handler(c) \in {"createMeeting", "updateMeeting"}
             /\ IsISO8601(b.startDate) /\ IsISO8601(b.endDate)
             /\ ~(b.startDate.t - b.startDate.z < b.endDate.t - b.endDate.z))
            => resp[c].status = 400 /\ ~resp[c].wrote

\* C4 witness: an update of a stored meeting refused for dates that spell
\* the same instant.
C4_Witness ==
    \E c \in DOMAIN pc :
        LET b == req[c].mbody
        IN  /\ Done(c) /\ Handler(c) = "updateMeeting"
            /\ IsMongoId(PathParam(c)) /\ PathParam(c).oid \in DOMAIN meetings
            /\ IsISO8601(b.startDate) /\ IsISO8601(b.endDate)
            /\ b.startDate # b.endDate
            /\ ParseDate(b.startDate) = ParseDate(b.endDate)
            /\ resp[c].status = 400
            /\ resp[c].error = "Start date must be before end date"

\* The ids of the meetings that were stored and are stored no more.
Deleted == {m \in 1..created : m \notin DOMAIN meetings}

C5_Step ==
    \A c \in DOMAIN pc :
        (/\ pc[c] = "handle" /\ pc'[c] = "done"
         /\ Handler(c) \in {"getMeeting", "deleteMeeting"}
         /\ IsMongoId(PathParam(c)))
        => /\ PathParam(c).oid \notin DOMAIN meetings
              => resp'[c].status = 404 /\ meetings' = meetings
           /\ (Handler(c) = "deleteMeeting" /\ resp'[c].status = 200)
              => /\ PathParam(c).oid \in DOMAIN meetings
                 /\ PathParam(c).oid \notin DOMAIN meetings'

C5_Gone == \A m \in Deleted : m \notin DOMAIN meetings'

\* C5: a DELETE answered 200 removes the meeting; a meeting once deleted is
\* never stored again; a GET or DELETE of an id that is not stored (never
\* created, or deleted) is answered 404 and changes nothing.
C5_DeletedStaysGone == [][C5_Step /\ C5_Gone]_vars

\* C5 witness: the second DELETE of a meeting, answered 404.
C5_Witness ==
    \E c \in DOMAIN pc :
        /\ Done(c) /\ Handler(c) = "deleteMeeting"
        /\ PathParam(c).oid \in Deleted
        /\ resp[c].status = 404

\* C6: GET /api/users/:userId/meetings answers 404 for an id of no stored
\* user, and for a stored user 200 with exactly the stored meetings the user
\* organizes or attends, each once, populated, in ascending startDate.
C6_MeetingsOfUser ==
    \A c \in DOMAIN pc :
        (Done(c) /\ Handler(c) = "userMeetings" /\ IsMongoId(PathParam(c)))
        => LET u == PathParam(c).oid
               docs == resp[c].mdocs
           IN  IF u \notin UserIds THEN resp[c].status = 404
               ELSE /\ resp[c].status = 200
                    /\ {docs[i].id : i \in DOMAIN docs}
                          = {m \in DOMAIN meetings :
                                \/ meetings[m].organizer = u
                                \/ u \in Range(meetings[m].attendees)}
                    /\ \A i, j \in DOMAIN docs : i < j => docs[i].id # docs[j].id
                    /\ Ascending(docs)
                    /\ \A i \in DOMAIN docs :
                          docs[i] = Populate(docs[i].id, meetings[docs[i].id])

\* C6 witness: two meetings answered in startDate order against the order
\* of their creation, the user being organizer and attendee of one and
\* attendee only of the other.
C6_Witness ==
    \E c \in DOMAIN pc :
        LET docs == resp[c].mdocs
            u == PathParam(c).oid
        IN  /\ Done(c) /\ Handler(c) = "userMeetings" /\ resp[c].status = 200
            /\ Len(docs) = 2
            /\ docs[1].id > docs[2].id
            /\ docs[1].startDate < docs[2].startDate
            /\ \E i \in 1..2 : /\ meetings[docs[i].id].organizer = u
                               /\ u \in Range(meetings[docs[i].id].attendees)
            /\ \E i \in 1..2 : /\ meetings[docs[i].id].organizer # u
                               /\ u \in Range(meetings[docs[i].id].attendees)

\* Case normalization of an e-mail address.
Normalized(e) == [i \in DOMAIN TrimLeft(TrimRight(e)) |->
                     LowerChar(TrimLeft(TrimRight(e))[i])]

C7_Unique ==
    \A u, v \in UserIds :
        Normalized(users[u].email) = Normalized(users[v].email) => u = v

C7_Outcome ==
    \A c \in DOMAIN pc :
        LET b == req[c].ubody
        IN  (/\ pc[c] = "handle" /\ pc'[c] = "done" /\ Handler(c) = "createUser"
             /\ NotEmpty(b.name) /\ IsEmail(b.email) /\ Trim(b.name) # <<>>)
            => IF \E u \in UserIds : Normalized(users[u].email) = Normalized(b.email)
               THEN /\ resp'[c].status = 400
                    /\ resp'[c].error = "Email already exists"
                    /\ users' = users
               ELSE /\ resp'[c].status = 201
                    /\ Len(users') = Len(users) + 1
                    /\ Normalized(users'[Len(users')].email) = Normalized(b.email)

C7_Stays ==
    /\ \A u \in UserIds : u <= Len(users') /\ users'[u] = users[u]
    /\ \A c \in DOMAIN pc :
          (/\ pc[c] = "handle" /\ pc'[c] = "done" /\ Handler(c) = "getUser"
           /\ IsMongoId(PathParam(c)) /\ PathParam(c).oid \in UserIds)
          => /\ resp'[c].status = 200
             /\ resp'[c].udocs = <<UserDoc(PathParam(c).oid)>>

\* C7: no two stored users have the same normalized e-mail address; a valid
\* POST /api/users is answered 201 and stores the user when no stored user
\* has its normalized address, and is answered 400 "Email already exists",
\* storing nothing, when one has: of two requests with the same normalized
\* address, in sequence or interleaved, the first to reach the store gets
\* 201 and the other 400.  A stored user is never changed or removed and is
\* read by GET /api/users/:id.
C7_OneUserPerEmail == [](C7_Unique) /\ [][C7_Outcome /\ C7_Stays]_vars

\* C7 witness: two clients whose addresses differ in case only, one answered
\* 201 and the other 400 "Email already exists".
C7_Witness ==
    \E c, d \in DOMAIN pc :
        /\ Done(c) /\ Handler(c) = "createUser"
        /\ Done(d) /\ Handler(d) = "createUser"
        /\ req[c].ubody.email # req[d].ubody.email
        /\ Normalized(req[c].ubody.email) = Normalized(req[d].ubody.email)
        /\ resp[c].status = 201
        /\ resp[d].status = 400 /\ resp[d].error = "Email already exists"
        /\ \E u \in UserIds : users[u].email = Normalized(req[d].ubody.email)

C8_Step ==
    \A c \in DOMAIN pc :
        (/\ pc[c] = "update" /\ pc'[c] = "done"
         /\ IsMongoId(PathParam(c))
         /\ Trim(req[c].mbody.title) # <<>>
         /\ PathParam(c).oid \notin DOMAIN meetings)
        => resp'[c].status = 404 /\ meetings' = meetings

C8_NoInsert ==
    \A c \in DOMAIN pc :
        (/\ Handler(c) = "updateMeeting"
         /\ pc[c] \notin {"idle", "done"} /\ pc'[c] # pc[c])
        => DOMAIN meetings' = DOMAIN meetings

\* C8: a PUT /api/meetings/:id that has passed the validators, the date
\* check and the reference checks, and whose id is not stored when the update
\* reaches the store, is answered 404 and leaves the Meeting collection as it
\* is; no step of an update adds or removes a meeting.
C8_UpdateNeverInserts == [][C8_Step /\ C8_NoInsert]_vars

\* C8 witness: an update answered 404 for a meeting that the other client's
\* DELETE has removed.
C8_Witness ==
    \E c, d \in DOMAIN pc :
        /\ Done(c) /\ Handler(c) = "updateMeeting" /\ resp[c].status = 404
        /\ PathParam(c).oid \in Deleted
        /\ Done(d) /\ Handler(d) = "deleteMeeting" /\ resp[d].status = 200
        /\ PathParam(d) = PathParam(c)

\* C9 (as claimed): a GET of a created meeting, not updated or deleted
\* since, is answered 200 with the submitted title, description, dates,
\* location, organizer id and attendee ids.
C9_EqualsSubmitted ==
    \A c \in DOMAIN pc :
        (/\ Done(c) /\ Handler(c) = "getMeeting" /\ IsMongoId(PathParam(c))
         /\ PathParam(c).oid \in DOMAIN submitted)
        => LET b == submitted[PathParam(c).oid]
               a == AttendeeList(b)
           IN  /\ resp[c].status = 200
               /\ Len(resp[c].mdocs) = 1
               /\ LET d == resp[c].mdocs[1]
                  IN  /\ d.title = b.title
                      /\ d.description = b.description
                      /\ d.location = b.location
                      /\ d.startDate = b.startDate.t - b.startDate.z
                      /\ d.endDate = b.endDate.t - b.endDate.z
                      /\ Len(d.organizer) = 1 /\ d.organizer[1].id = b.organizer.oid
                      /\ [i \in DOMAIN d.attendees |-> d.attendees[i].id]
                            = [i \in DOMAIN a |-> a[i].oid]

\* C9 (amended): as C9, the title, description and location being the
\* submitted texts without their leading and trailing blanks.
C9_EqualsSubmittedTrimmed ==
    \A c \in DOMAIN pc :
        (/\ Done(c) /\ Handler(c) = "getMeeting" /\ IsMongoId(PathParam(c))
         /\ PathParam(c).oid \in DOMAIN submitted)
        => LET b == submitted[PathParam(c).oid]
               a == AttendeeList(b)
           IN  /\ resp[c].status = 200
               /\ Len(resp[c].mdocs) = 1
               /\ LET d == resp[c].mdocs[1]
                  IN  /\ d.title = TrimLeft(TrimRight(b.title))
                      /\ d.description =
                            IF b.description = <<>> THEN <<>>
                            ELSE <<TrimLeft(TrimRight(b.description[1]))>>
                      /\ d.location =
                            IF b.location = <<>> THEN <<>>
                            ELSE <<TrimLeft(TrimRight(b.location[1]))>>
                      /\ d.startDate = b.startDate.t - b.startDate.z
                      /\ d.endDate = b.endDate.t - b.endDate.z
                      /\ Len(d.organizer) = 1 /\ d.organizer[1].id = b.organizer.oid
                      /\ [i \in DOMAIN d.attendees |-> d.attendees[i].id]
                            = [i \in DOMAIN a |-> a[i].oid]

\* C9 witness: a GET of a meeting created with blanks around its texts.
C9_Witness ==
    \E c \in DOMAIN pc :
        /\ Done(c) /\ Handler(c) = "getMeeting" /\ resp[c].status = 200
        /\ PathParam(c).oid \in DOMAIN submitted
        /\ submitted[PathParam(c).oid].title # resp[c].mdocs[1].title
        /\ submitted[PathParam(c).oid].description # <<>>

\* C10: every stored meeting's organizer and attendees are ids of stored
\* users, in every state of every interleaving of the clients' requests.
C10_NoDanglingReference ==
    \A m \in DOMAIN meetings :
        /\ meetings[m].organizer \in UserIds
        /\ \A i \in DOMAIN meetings[m].attendees :
              meetings[m].attendees[i] \in UserIds

\* C10 witness: a stored meeting organized and attended by the user created
\* last, while a client's update of it is between the reference checks and
\* the write and the other client has a request in hand.
C10_Witness ==
    /\ Len(users) = 2
    /\ \E c, d \in DOMAIN pc, m \in DOMAIN meetings :
          /\ c # d
          /\ meetings[m].organizer = 2 /\ meetings[m].attendees = <<2>>
          /\ pc[c] = "update" /\ PathParam(c).oid = m
          /\ pc[d] = "handle"

====
